---- MODULE Spec2Model ----
(***************************************************************************)
(* Model of voyager-overlay: the content-stream builder                    *)
(* (content_stream_string.cpp) and the page generator (voyager-overlay.cpp)*)
(*                                                                         *)
(* Numbers.  A double is modelled by the exact value (n + e*eps)/d, where  *)
(* eps is a positive infinitesimal: the amount by which the float literal  *)
(* 0.1f exceeds the double 0.1 (1.49e-9, far above double rounding noise   *)
(* and far below every length of the program).  The IEEE specials that the *)
(* tiling arithmetic can produce (division by zero) are kept as kinds.     *)
(* A std::string is the sequence of its characters.                        *)
(***************************************************************************)
EXTENDS Integers, Sequences, FiniteSets, TLC

VARIABLES
  cs,          \* a ContentStreamString object under its caller's calls
  thrown,      \* what() of the std::logic_error a call on cs has thrown, or ""
  call,        \* the latest call on cs: its name and arguments
  ncalls,      \* the number of calls made on cs
  legend_map,  \* the static std::map legend_map
  ov,          \* a call of create_overlay: its arguments, locals and position
  statics,     \* the function-local statics of createPageContents
  page,        \* the latest call of createPageContents: arguments and results
  prev,        \* the call of createPageContents before it
  pcalls,      \* the number of calls of createPageContents
  nan_text     \* what the target prints for the NaN that 0 * inf yields

builderVars == <<cs, thrown, call, ncalls>>

overlayVars == <<ov>>

pageVars == <<statics, page, prev, pcalls, nan_text>>

vars == <<cs, thrown, call, ncalls, legend_map, ov, statics, page, prev, pcalls, nan_text>>

\* ------------------------------------------------------------- numbers

Abs(i) == IF i < 0 THEN -i ELSE i

Sign(i) == IF i < 0 THEN -1 ELSE IF i > 0 THEN 1 ELSE 0

RECURSIVE GCD(_, _)
GCD(a, b) == IF b = 0 THEN a ELSE GCD(b, a % b)

\* (n + e*eps)/d with the common divisor g taken out
Reduced(n, e, d, g) == [k |-> "fin", n |-> n \div g, e |-> e \div g, d |-> d \div g]

\* (n + e*eps)/d in lowest terms, d > 0
Norm(n, e, d) ==
  Reduced(n, e, d, (IF d < 0 THEN -1 ELSE 1) * GCD(GCD(Abs(n), Abs(e)), Abs(d)))

R(n, d) == Norm(n, 0, d)

PInf == [k |-> "pinf"]
NInf == [k |-> "ninf"]
NaN  == [k |-> "nan"]

IsFin(a) == a.k = "fin"

\* sign of a finite value (the eps part decides when the rational part is 0)
SignOf(a) == IF a.n # 0 THEN Sign(a.n) ELSE Sign(a.e)

NumNeg(a) ==
  CASE a.k = "fin"  -> [a EXCEPT !.n = -a.n, !.e = -a.e]
    [] a.k = "pinf" -> NInf
    [] a.k = "ninf" -> PInf
    [] OTHER        -> NaN

\* the sum of finite numbers over the common multiple l of their denominators
AddOver(a, b, l) ==
  Norm(a.n * (l \div a.d) + b.n * (l \div b.d),
       a.e * (l \div a.d) + b.e * (l \div b.d), l)

\* IEEE addition
NumAdd(a, b) ==
  CASE a.k = "nan" \/ b.k = "nan" -> NaN
    [] a.k = "fin" /\ b.k = "fin" -> AddOver(a, b, (a.d \div GCD(a.d, b.d)) * b.d)
    [] a.k = "fin" -> b
    [] b.k = "fin" -> a
    [] a.k = b.k   -> a
    [] OTHER       -> NaN

NumSub(a, b) == NumAdd(a, NumNeg(b))

\* IEEE product of a number and an int
NumMulI(a, i) ==
  CASE a.k = "nan" -> NaN
    [] a.k = "fin" -> Norm(a.n * i, a.e * i, a.d)
    [] i = 0       -> NaN
    [] i > 0       -> a
    [] OTHER       -> NumNeg(a)

\* IEEE quotient of a number by an int
NumDivI(a, i) ==
  CASE a.k = "nan" -> NaN
    [] a.k = "fin" /\ i # 0 -> Norm(a.n, a.e, a.d * i)
    [] a.k = "fin" -> IF SignOf(a) > 0 THEN PInf ELSE IF SignOf(a) < 0 THEN NInf ELSE NaN
    [] i >= 0      -> a
    [] OTHER       -> NumNeg(a)

\* product and quotient of finite numbers, the second one rational
NumMul(a, b) == Norm(a.n * b.n, a.e * b.n, a.d * b.d)

NumDiv(a, b) == Norm(a.n * b.d, a.e * b.d, a.d * b.n)

\* std::abs
NumAbs(a) ==
  CASE a.k = "fin"  -> [a EXCEPT !.n = Abs(a.n), !.e = IF a.n # 0 THEN Sign(a.n) * a.e
                                                         ELSE Abs(a.e)]
    [] a.k = "nan"  -> NaN
    [] OTHER        -> PInf

\* IEEE a < b (false when either is NaN)
NumLt(a, b) ==
  CASE a.k = "nan" \/ b.k = "nan" -> FALSE
    [] a.k = "fin" /\ b.k = "fin" ->
         \/ a.n * b.d < b.n * a.d
         \/ a.n * b.d = b.n * a.d /\ a.e * b.d < b.e * a.d
    [] a.k = "ninf" -> b.k # "ninf"
    [] b.k = "pinf" -> a.k # "pinf"
    [] OTHER        -> FALSE

\* int(p/q + e*eps), q > 0: truncation toward zero
Trunc(p, q, e) ==
  IF p >= 0
  THEN IF p % q = 0 /\ e < 0 /\ p > 0 THEN (p \div q) - 1 ELSE p \div q
  ELSE IF (-p) % q = 0 /\ e > 0 THEN -(((-p) \div q) - 1) ELSE -((-p) \div q)

\* conversion of the quotient of two finite numbers (b rational, b > 0) to int
TruncDiv(a, b) == Trunc(a.n * b.d, a.d * b.n, a.e)

\* ---------------------------------------------- std::format("{:g}", x)

RECURSIVE Pow10(_)
Pow10(k) == IF k = 0 THEN 1 ELSE 10 * Pow10(k - 1)

RECURSIVE Zeros(_)
Zeros(k) == IF k <= 0 THEN "" ELSE "0" \o Zeros(k - 1)

RECURSIVE StripZeros(_)
StripZeros(s) ==
  IF Len(s) > 0 /\ SubSeq(s, Len(s), Len(s)) = "0"
  THEN StripZeros(SubSeq(s, 1, Len(s) - 1))
  ELSE s

\* k more decimal digits of r/d (0 <= r < d): the digits as an int, and the rest
RECURSIVE LongDiv(_, _, _, _)
LongDiv(q, r, d, k) ==
  IF k = 0 THEN [q |-> q, r |-> r]
  ELSE LongDiv(q * 10 + ((r * 10) \div d), (r * 10) % d, d, k - 1)

\* the leading zero digits of r/d (0 < r < d) after the decimal point
RECURSIVE LeadZeros(_, _, _)
LeadZeros(r, d, z) ==
  IF (r * 10) \div d # 0 THEN [r |-> r, z |-> z] ELSE LeadZeros(r * 10, d, z + 1)

\* digits m of a value cut after six significant digits, its decimal exponent x,
\* c: what is cut off compared with half a unit of m, rest: more of it below
CutFraction(ld, d, x) == [m |-> ld.q, x |-> x, c |-> Sign(2 * ld.r - d), rest |-> 0]

CutInteger(ip, p, r0, x) ==
  [m |-> ip \div p, x |-> x, c |-> Sign(2 * (ip % p) - p), rest |-> r0]

\* n/d >= 1 with integer part ip of L digits and r0 = n % d
DigitsOfLarge(ip, r0, d, L) ==
  IF L <= 6 THEN CutFraction(LongDiv(ip, r0, d, 6 - L), d, L - 1)
  ELSE CutInteger(ip, Pow10(L - 6), r0, L - 1)

\* n/d < 1, lz: its leading zeros
DigitsOfSmall(lz, d) == CutFraction(LongDiv(0, lz.r, d, 6), d, -(lz.z + 1))

\* round to nearest; tb breaks a tie (the sign of what the exact value leaves
\* out), an exact tie goes to even
Rounded(raw, up) ==
  IF up /\ raw.m + 1 = 1000000 THEN [m |-> 100000, x |-> raw.x + 1]
  ELSE [m |-> IF up THEN raw.m + 1 ELSE raw.m, x |-> raw.x]

RoundDigits(raw, tb) ==
  Rounded(raw, \/ raw.c > 0
               \/ raw.c = 0 /\ (raw.rest > 0 \/ tb > 0 \/ (tb = 0 /\ raw.m % 2 = 1)))

\* six significant digits m (100000..999999) and decimal exponent x of n/d > 0
SixDigits(n, d, tb) ==
  RoundDigits(IF n \div d > 0
              THEN DigitsOfLarge(n \div d, n % d, d, Len(ToString(n \div d)))
              ELSE DigitsOfSmall(LeadZeros(n % d, d, 0), d),
              tb)

\* the text of the digits D (Ds: without trailing zeros) with exponent x
RenderDigits(D, Ds, x) ==
  IF x < -4 \/ x >= 6
  THEN SubSeq(Ds, 1, 1)
       \o (IF Len(Ds) > 1 THEN "." \o SubSeq(Ds, 2, Len(Ds)) ELSE "")
       \o "e" \o (IF x < 0 THEN "-" ELSE "+")
       \o (IF Abs(x) < 10 THEN "0" ELSE "") \o ToString(Abs(x))
  ELSE IF x >= 0
  THEN SubSeq(D, 1, x + 1)
       \o (IF Len(Ds) > x + 1 THEN "." \o SubSeq(Ds, x + 2, Len(Ds)) ELSE "")
  ELSE "0." \o Zeros(-x - 1) \o Ds

\* the text of m * 10^(x-5) in the general format
Render(m, x) == RenderDigits(ToString(m), StripZeros(ToString(m)), x)

\* sign, digits and exponent as text
Signed(neg, sd, shift) == (IF neg THEN "-" ELSE "") \o Render(sd.m, sd.x + shift)

\* the first digits of eps = 0.1f - 0.1 = 1.4901161e-09
EpsDigits == 14901161

\* the text std::format("{:g}", a) produces; nan is the target's NaN text
Fmt(a, nan) ==
  CASE a.k = "nan"  -> nan
    [] a.k = "pinf" -> "inf"
    [] a.k = "ninf" -> "-inf"
    [] OTHER ->
         IF a.n = 0 /\ a.e = 0 THEN "0"
         ELSE IF a.n = 0
         THEN Signed(a.e < 0, SixDigits(Abs(a.e) * EpsDigits, a.d, 0), -16)
         ELSE Signed(a.n < 0, SixDigits(Abs(a.n), a.d, Sign(a.n) * Sign(a.e)), 0)

G(a) == Fmt(a, "nan")

\* --------------------------------------------------- ContentStreamString

\* the std::string with the characters of a literal or of a formatted number
Str(t) == [i \in 1..Len(t) |-> SubSeq(t, i, i)]

Zero == R(0, 1)

Coord(x, y) == [x |-> x, y |-> y]

Dimensions(width, height) == [width |-> width, height |-> height]

BLACK == [r |-> Zero, g |-> Zero, b |-> Zero]

FillRule == {"NONZERO_WINDING", "EVEN_ODD"}

HorizontalAlignment == {"LEFT", "CENTER", "RIGHT"}

\* the object after its constructor: the string, and the three private fields
ContentStreamString(path_graphics_state) ==
  [str             |-> IF path_graphics_state THEN Str("q Q\n") ELSE Str(""),
   trailer_length  |-> IF path_graphics_state THEN 2 ELSE 0,
   have_last_coord |-> FALSE,
   last_coord      |-> Coord(Zero, Zero)]

\* a call that throws std::logic_error(what), with the object as the throw leaves it
Throw(b, what) == [exception |-> what, b |-> b]

IsException(r) == "exception" \in DOMAIN r

\* the rest of a chain of calls on the object, unless one has thrown
Then(r, Op(_)) == IF IsException(r) THEN r ELSE Op(r)

\* insert that appends, whatever the trailer
insert_at_end(b, s) == [b EXCEPT !.str = b.str \o Str(s)]

\* s is the text to insert
insert(b, s) ==
  LET pos == Len(b.str) - b.trailer_length
  IN  [b EXCEPT !.str = SubSeq(b.str, 1, pos) \o Str(s)
                          \o SubSeq(b.str, pos + 1, Len(b.str))]

set_color_space(b, color_space, fill, stroke) ==
  LET b1 == IF fill THEN insert(b, "/" \o color_space \o "cs ") ELSE b
  IN  IF stroke THEN insert(b1, "/" \o color_space \o "CS ") ELSE b1

set_color(b, color, fill, stroke) ==
  LET t  == G(color.r) \o " " \o G(color.g) \o " " \o G(color.b)
      b1 == IF fill THEN insert(b, t \o " sc ") ELSE b
  IN  IF stroke THEN insert(b1, t \o " SC ") ELSE b1

\* width is a float: its six printed digits are those of the double it is made from
set_line_width(b, width) == insert(b, G(width) \o " w ")

move_to(b, dest) ==
  [insert(b, G(dest.x) \o " " \o G(dest.y) \o " m ")
     EXCEPT !.last_coord = dest, !.have_last_coord = TRUE]

line_to(b, dest) ==
  [insert(b, G(dest.x) \o " " \o G(dest.y) \o " l ")
     EXCEPT !.last_coord = dest, !.have_last_coord = TRUE]

\* 4 * (sqrt(2) - 1) / 3 = 0.5522847498..., to eight decimals
KAPPA == R(55228475, 100000000)

\* p moved by v along x, along y
MovedX(p, v) == [p EXCEPT !.x = NumAdd(p.x, v)]

MovedY(p, v) == [p EXCEPT !.y = NumAdd(p.y, v)]

\* the two control points of arc_to, from the quadrant tests
arc_points(p0, p3, clockwise, c) ==
  IF clockwise
  THEN IF NumLt(p0.x, p3.x) /\ NumLt(p3.y, p0.y)
       THEN [p1 |-> MovedX(p0, c), p2 |-> MovedY(p3, c)]
       ELSE IF NumLt(p0.x, p3.x) /\ NumLt(p0.y, p3.y)
       THEN [p1 |-> MovedY(p0, c), p2 |-> MovedX(p3, NumNeg(c))]
       ELSE IF NumLt(p3.x, p0.x) /\ NumLt(p0.y, p3.y)
       THEN [p1 |-> MovedX(p0, NumNeg(c)), p2 |-> MovedY(p3, NumNeg(c))]
       ELSE [p1 |-> MovedY(p0, NumNeg(c)), p2 |-> MovedX(p3, c)]
  ELSE IF NumLt(p3.x, p0.x) /\ NumLt(p0.y, p3.y)
       THEN [p1 |-> MovedY(p0, c), p2 |-> MovedX(p3, c)]
       ELSE IF NumLt(p3.y, p0.x) /\ NumLt(p3.y, p0.y)
       THEN [p1 |-> MovedX(p0, NumNeg(c)), p2 |-> MovedY(p3, c)]
       ELSE IF NumLt(p0.x, p3.y) /\ NumLt(p3.y, p0.y)
       THEN [p1 |-> MovedY(p0, NumNeg(c)), p2 |-> MovedX(p3, NumNeg(c))]
       ELSE [p1 |-> MovedX(p0, c), p2 |-> MovedY(p3, NumNeg(c))]

\* arc_control with c = radius
arc_control_no_kappa(p0, p3, clockwise) ==
  arc_points(p0, p3, clockwise, NumAbs(NumSub(p0.x, p3.x)))

\* radius and c, then the quadrant
arc_control(p0, p3, clockwise) ==
  arc_points(p0, p3, clockwise, NumMul(KAPPA, NumAbs(NumSub(p0.x, p3.x))))

\* the curve instruction, and the cursor at its end
arc_curve(b, cp, dest) ==
  [insert(b, G(cp.p1.x) \o " " \o G(cp.p1.y) \o " " \o G(cp.p2.x) \o " "
             \o G(cp.p2.y) \o " " \o G(dest.x) \o " " \o G(dest.y) \o " c\n")
     EXCEPT !.last_coord = dest, !.have_last_coord = TRUE]

arc_to(b, dest, clockwise) ==
  IF ~b.have_last_coord THEN Throw(b, "arc_to() origin unknown")
  ELSE arc_curve(b, arc_control(b.last_coord, dest, clockwise), dest)

\* the four sides from origin, the cursor
rect_sides(b, origin, right, bottom) ==
  line_to(line_to(line_to(line_to(b, Coord(right, origin.y)),
                          Coord(right, bottom)),
                  Coord(origin.x, bottom)),
          origin)

\* rect without its test of have_last_coord
rect_unchecked(b, dimensions) ==
  rect_sides(b, b.last_coord, NumAdd(b.last_coord.x, dimensions.width),
             NumSub(b.last_coord.y, dimensions.height))

rect(b, dimensions) ==
  IF ~b.have_last_coord THEN Throw(b, "arc_to() origin unknown")
  ELSE rect_sides(b, b.last_coord, NumAdd(b.last_coord.x, dimensions.width),
                  NumSub(b.last_coord.y, dimensions.height))

\* the path of rounded_rect for a radius that is not 0
rounded_path(b, origin, left, top, right, bottom, radius) ==
  Then(Then(Then(Then(Then(Then(Then(Then(Then(
    move_to(b, Coord(left, NumSub(top, radius))),
    LAMBDA c : arc_to(c, Coord(NumAdd(left, radius), top), TRUE)),
    LAMBDA c : line_to(c, Coord(NumSub(right, radius), top))),
    LAMBDA c : arc_to(c, Coord(right, NumSub(top, radius)), TRUE)),
    LAMBDA c : line_to(c, Coord(right, NumAdd(bottom, radius)))),
    LAMBDA c : arc_to(c, Coord(NumSub(right, radius), bottom), TRUE)),
    LAMBDA c : line_to(c, Coord(NumAdd(left, radius), bottom))),
    LAMBDA c : arc_to(c, Coord(left, NumAdd(bottom, radius)), TRUE)),
    LAMBDA c : line_to(c, Coord(left, NumSub(top, radius)))),
    LAMBDA c : move_to(c, origin))

\* rounded_rect without its case for radius 0
rounded_rect_arcs_only(b, dimensions, radius) ==
  IF ~b.have_last_coord THEN Throw(b, "arc_to() origin unknown")
  ELSE rounded_path(b, b.last_coord, b.last_coord.x, b.last_coord.y,
                    NumAdd(b.last_coord.x, dimensions.width),
                    NumSub(b.last_coord.y, dimensions.height), radius)

rounded_rect(b, dimensions, radius) ==
  IF ~b.have_last_coord THEN Throw(b, "arc_to() origin unknown")
  ELSE IF radius = Zero THEN rect(b, dimensions)
  ELSE rounded_path(b, b.last_coord, b.last_coord.x, b.last_coord.y,
                    NumAdd(b.last_coord.x, dimensions.width),
                    NumSub(b.last_coord.y, dimensions.height), radius)

\* the text width is always 0 and the aligned x is computed but not used
text(b, dest, horizontal_alignment, txt, font_name, font_size_pt) ==
  insert(insert(insert(insert(insert(insert(b,
    "BT "),
    G(dest.x) \o " " \o G(dest.y) \o " Td "),
    "0 Tr "),
    "/" \o font_name \o " " \o G(font_size_pt) \o " Tf\n"),
    "(" \o txt \o ") Tj "),
    "ET\n")

path_close(b) == [insert(b, "h\n") EXCEPT !.have_last_coord = FALSE]

path_stroke(b) == insert(b, "S\n")

path_close_stroke(b) == [insert(b, "s\n") EXCEPT !.have_last_coord = FALSE]

\* path_fill that ends the path as the close variants do
path_fill_ending(b, fill_rule) ==
  [(IF fill_rule = "NONZERO_WINDING" THEN insert(b, "f\n") ELSE insert(b, "f*\n"))
     EXCEPT !.have_last_coord = FALSE]

path_fill(b, fill_rule) ==
  IF fill_rule = "NONZERO_WINDING" THEN insert(b, "f\n") ELSE insert(b, "f*\n")

path_fill_stroke(b, fill_rule) ==
  IF fill_rule = "NONZERO_WINDING" THEN insert(b, "B\n") ELSE insert(b, "B*\n")

path_close_fill_stroke(b, fill_rule) ==
  [(IF fill_rule = "NONZERO_WINDING" THEN insert(b, "b\n") ELSE insert(b, "b*\n"))
     EXCEPT !.have_last_coord = FALSE]

\* ------------------------------------------------------ voyager-overlay

MM_PER_IN == R(254, 10)
PT_PER_IN == R(72, 1)

PAGE_INSET_LEFT_IN     == R(625, 1000)
PAGE_INSET_RIGHT_IN    == R(625, 1000)
PAGE_INSET_TOP_IN      == R(625, 1000)
PAGE_INSET_BOTTOM_IN   == R(1024, 1000)
REG_MARK_SIZE_IN       == R(250, 1000)
REG_MARK_LINE_WIDTH_MM == R(5, 10)

cameo4_no_mat_reg_geometry ==
  [inset_left_in   |-> PAGE_INSET_LEFT_IN,
   inset_right_in  |-> PAGE_INSET_RIGHT_IN,
   inset_top_in    |-> PAGE_INSET_TOP_IN,
   inset_bottom_in |-> PAGE_INSET_BOTTOM_IN,
   square_size_in  |-> REG_MARK_SIZE_IN,
   line_length_in  |-> REG_MARK_SIZE_IN,
   line_width_in   |-> NumDiv(REG_MARK_LINE_WIDTH_MM, MM_PER_IN)]

hp_geometry ==
  [width_in             |-> R(465, 100),
   height_in            |-> R(210, 100),
   corner_radius_in     |-> R(25, 1000),
   key_col_pitch_in     |-> R(45, 100),
   key_row_pitch_in     |-> R(50, 100),
   key_row_1_offset_in  |-> R(133, 1000),
   key_width_in         |-> R(34, 100),
   key_height_in        |-> R(32, 100),
   key_corner_radius_in |-> R(25, 1000)]

sm_geometry ==
  [width_in             |-> R(475, 100),
   height_in            |-> R(195, 100),
   corner_radius_in     |-> R(25, 1000),
   key_col_pitch_in     |-> R(475, 1000),
   key_row_pitch_in     |-> R(475, 1000),
   key_row_1_offset_in  |-> R(175, 1000),
   key_width_in         |-> R(33, 100),
   key_height_in        |-> R(30, 100),
   key_corner_radius_in |-> R(25, 1000)]

\* the three marks, from the sides of the cut area
reg_marks(geom, left, right, top, bottom) ==
  Then(Then(Then(Then(Then(Then(Then(Then(Then(Then(
    move_to(set_color(set_color_space(set_line_width(ContentStreamString(TRUE),
                                                     geom.line_width_in),
                                      "DeviceRGB", TRUE, TRUE),
                      BLACK, TRUE, TRUE),
            Coord(left, top)),
    LAMBDA c : rect(c, Dimensions(geom.square_size_in, geom.square_size_in))),
    LAMBDA c : path_close_fill_stroke(c, "NONZERO_WINDING")),
    LAMBDA c : move_to(c, Coord(left, NumAdd(bottom, geom.line_length_in)))),
    LAMBDA c : line_to(c, Coord(left, bottom))),
    LAMBDA c : line_to(c, Coord(NumAdd(left, geom.line_length_in), bottom))),
    path_stroke),
    LAMBDA c : move_to(c, Coord(NumSub(right, geom.line_length_in), top))),
    LAMBDA c : line_to(c, Coord(right, top))),
    LAMBDA c : line_to(c, Coord(right, NumSub(top, geom.line_length_in)))),
    path_stroke)

\* create_registration with the bottom inset taken from the top of the page
create_registration_bottom_from_top(page_width_in, page_height_in, geom) ==
  reg_marks(geom, geom.inset_left_in, NumSub(page_width_in, geom.inset_right_in),
            NumSub(page_height_in, geom.inset_top_in),
            NumSub(page_height_in, geom.inset_bottom_in))

\* the builder create_registration returns as a std::string
create_registration(page_width_in, page_height_in, geom) ==
  reg_marks(geom, geom.inset_left_in, NumSub(page_width_in, geom.inset_right_in),
            NumSub(page_height_in, geom.inset_top_in), geom.inset_bottom_in)

\* the initializer list of legend_map (the #if 1 branch), in order
legend_list ==
  << <<11, "ln e^x">>, <<12, "log 10^x">>, <<13, "? fact">>, <<14, "sin -1">>,
     <<15, "cos -1">>, <<16, "tan -1">>,
     <<17, "MASKL">>, <<18, "MASKR">>, <<19, "RMD">>, <<10, "XOR">>,
     <<21, "x<>(i)">>, <<22, "x<>I">>, <<23, "SH HEX">>, <<24, "SH DEC">>,
     <<25, "SH OCT">>, <<26, "SH BIN">>, <<27, "SB">>, <<28, "CB">>, <<29, "B?">>,
     <<30, "AND">>,
     <<31, "(i)">>, <<32, "I">>, <<33, "CL PRGM">>, <<34, "CL REG">>,
     <<35, "CL PRFX">>, <<36, "WINDOW">>, <<37, "1s COMP">>, <<38, "2s COMP">>,
     <<39, "UNSIGNED">>, <<40, "NOT">>,
     <<41, "">>, <<42, "">>, <<43, "">>, <<44, "WSIZE">>, <<45, "FLOAT">>,
     <<47, "MEM">>, <<48, "STATUS">>, <<49, "EEX">>, <<40, "OR">> >>

\* std::map's construction from a list: an element whose key is present is dropped
RECURSIVE map_of(_, _)
map_of(list, m) ==
  IF list = <<>> THEN m
  ELSE LET k == Head(list)[1]
       IN  map_of(Tail(list), IF k \in DOMAIN m THEN m ELSE m @@ (k :> Head(list)[2]))

legend_map_0 == map_of(legend_list, <<>>)

\* std::map::operator[]: an absent key is inserted with the empty string
map_index(m, k) == IF k \in DOMAIN m THEN m ELSE m @@ (k :> "")

\* create_overlay up to its loop: the builder cs
overlay_begin(geom, show_outlines) ==
  Then(set_color(set_line_width(ContentStreamString(TRUE),
                                NumDiv(R(1, 10), MM_PER_IN)),
                 BLACK, FALSE, TRUE),
       LAMBDA c :
         IF show_outlines
         THEN Then(Then(move_to(c, Coord(Zero, geom.height_in)),
                        LAMBDA d : rounded_rect(d, Dimensions(geom.width_in,
                                                              geom.height_in),
                                                geom.corner_radius_in)),
                   path_close_stroke)
         ELSE c)

\* key_height without the tall key
key_height_plain(geom, row, col) == geom.key_height_in

\* the local key_height of one pass of the inner loop
key_height_of(geom, row, col) ==
  IF row = 2 /\ col = 5
  THEN NumAdd(geom.key_height_in, geom.key_row_pitch_in)
  ELSE geom.key_height_in

\* the locals of one pass of the inner loop
key_locals(geom, row, col) ==
  [y          |-> NumSub(geom.height_in,
                         NumAdd(NumMulI(geom.key_row_pitch_in, row),
                                geom.key_row_1_offset_in)),
   key_height |-> key_height_of(geom, row, col),
   user_kc    |-> ((row + 1) * 10) + ((col + 1) % 10),
   x          |-> NumAdd(NumAdd(NumSub(NumDivI(geom.width_in, 2),
                                       NumMulI(geom.key_col_pitch_in, 5)),
                                NumDivI(NumSub(geom.key_col_pitch_in,
                                               geom.key_width_in), 2)),
                         NumMulI(geom.key_col_pitch_in, col))]

\* the outline of the key with locals k
key_outline(c, geom, k) ==
  Then(Then(move_to(c, Coord(k.x, k.y)),
            LAMBDA d : rounded_rect(d, Dimensions(geom.key_width_in, k.key_height),
                                    geom.key_corner_radius_in)),
       path_close_stroke)

\* the legend of the key with locals k, from legend_map after its operator[]
key_legend(c, geom, k, m) ==
  [cs |-> Then(c, LAMBDA d :
                    text(d, Coord(NumSub(NumAdd(k.x, NumDivI(geom.key_width_in, 2)),
                                         R(125, 1000)),
                                  NumAdd(k.y, R(3, 100))),
                         "CENTER", m[k.user_kc], "F1", NumDiv(R(6, 1), PT_PER_IN))),
   legend_map |-> m]

\* the body of the inner loop after the test for the skipped cell
key_body(st, geom, k, show_outlines, show_legends) ==
  IF show_legends
  THEN key_legend(IF show_outlines THEN key_outline(st.cs, geom, k) ELSE st.cs,
                  geom, k, map_index(st.legend_map, k.user_kc))
  ELSE [cs |-> IF show_outlines THEN key_outline(st.cs, geom, k) ELSE st.cs,
        legend_map |-> st.legend_map]

\* one pass of the inner loop on st = [cs, legend_map]
overlay_key(st, geom, row, col, show_outlines, show_legends) ==
  IF row = 3 /\ col = 5 THEN st
  ELSE key_body(st, geom, key_locals(geom, row, col), show_outlines, show_legends)

\* the passes of the loops from cell i = 10 * row + col on; an exception ends them
RECURSIVE overlay_loop(_, _, _, _, _)
overlay_loop(st, geom, i, show_outlines, show_legends) ==
  IF i = 40 \/ IsException(st.cs) THEN st
  ELSE overlay_loop(overlay_key(st, geom, i \div 10, i % 10, show_outlines, show_legends),
                    geom, i + 1, show_outlines, show_legends)

\* cs converted to the std::string returned
overlay_return(st) == [s |-> st.cs.str, legend_map |-> st.legend_map]

\* the std::string create_overlay returns, and legend_map after it
create_overlay(geom, show_outlines, show_legends, lmap) ==
  overlay_return(overlay_loop([cs |-> overlay_begin(geom, show_outlines),
                               legend_map |-> lmap],
                              geom, 0, show_outlines, show_legends))

\* create_overlay for the arguments main can pass and the two contents
\* legend_map can have, evaluated once
overlay_results ==
  [a \in {hp_geometry, sm_geometry} \X BOOLEAN \X BOOLEAN
           \X {legend_map_0, map_index(legend_map_0, 20)} |->
     create_overlay(a[1], a[2], a[3], a[4])] @@ <<>>

create_overlay_once(geom, show_outlines, show_legends, lmap) ==
  overlay_results[<<geom, show_outlines, show_legends, lmap>>]

\* float constants: the double 0.1 plus eps
OVERLAY_MINIMUM_Y_GAP_IN == Norm(1, 10, 10)

ADDITIONAL_INSET_IN == Norm(1, 10, 10)

\* the function-local statics of createPageContents before its first call
layout_0 ==
  [init |-> FALSE, top_in |-> Zero, bottom_in |-> Zero, available_height_in |-> Zero,
   y_count |-> 0, overlay_y_gap_in |-> Zero]

\* the statics after a pass through their declarations: each is initialised by
\* the first pass only, and the decrement of y_count is made by every pass
page_layout(layout, page_height_in, reg_geom, geom) ==
  LET top_in    == IF layout.init THEN layout.top_in
                   ELSE NumAdd(reg_geom.inset_top_in, ADDITIONAL_INSET_IN)
      bottom_in == IF layout.init THEN layout.bottom_in
                   ELSE NumSub(page_height_in,
                               NumAdd(reg_geom.inset_bottom_in, ADDITIONAL_INSET_IN))
      available_height_in == IF layout.init THEN layout.available_height_in
                             ELSE NumSub(bottom_in, top_in)
      y_count_0 == IF layout.init THEN layout.y_count
                   ELSE TruncDiv(available_height_in, geom.height_in)
      y_count   == IF NumLt(NumSub(available_height_in,
                                   NumDivI(NumMulI(geom.height_in, y_count_0),
                                           y_count_0 - 1)),
                            OVERLAY_MINIMUM_Y_GAP_IN)
                   THEN y_count_0 - 1 ELSE y_count_0
      overlay_y_gap_in == IF layout.init THEN layout.overlay_y_gap_in
                          ELSE NumDivI(NumSub(available_height_in,
                                              NumMulI(geom.height_in, y_count)),
                                       y_count - 1)
  IN  [init |-> TRUE, top_in |-> top_in, bottom_in |-> bottom_in,
       available_height_in |-> available_height_in, y_count |-> y_count,
       overlay_y_gap_in |-> overlay_y_gap_in]

\* one pass of the copy loop, o: what create_overlay returns in it
page_copy(acc, y, left, top, bottom, o, nan) ==
  [contents   |-> acc.contents
                    \o Str("q " \o "1 0 0 1 " \o Fmt(left, nan) \o " "
                           \o Fmt(NumSub(bottom, R(155, 100)), nan) \o " cm\n")
                    \o o.s \o Str("Q\n"),
   cout       |-> acc.cout \o << "overlay " \o ToString(y),
                                 "left " \o Fmt(left, nan),
                                 "top " \o Fmt(top, nan),
                                 "bottom " \o Fmt(bottom, nan) >>,
   legend_map |-> o.legend_map]

\* copy_top without the gap
copy_top_packed(layout, geom, y) ==
  NumAdd(layout.top_in, NumMulI(geom.height_in, y))

\* top of copy y
copy_top(layout, geom, y) ==
  NumAdd(layout.top_in, NumMulI(NumAdd(geom.height_in, layout.overlay_y_gap_in), y))

\* the passes of the copy loop from y on; acc = [contents, cout, legend_map]
RECURSIVE page_copies(_, _, _, _, _, _, _, _)
page_copies(acc, y, layout, page_width_in, geom, show_outlines, show_legends, nan) ==
  IF ~(y < layout.y_count) THEN acc
  ELSE page_copies(
         page_copy(acc, y, NumDivI(NumSub(page_width_in, geom.width_in), 2),
                   copy_top(layout, geom, y),
                   NumAdd(copy_top(layout, geom, y), geom.height_in),
                   create_overlay_once(geom, show_outlines, show_legends, acc.legend_map),
                   nan),
         y + 1, layout, page_width_in, geom, show_outlines, show_legends, nan)

\* contents and std::cout before the copy loop
page_begin(layout, lmap, nan, page_width_in, page_height_in, show_reg_marks) ==
  [contents   |-> Str("q " \o G(PT_PER_IN) \o " 0 0 " \o G(PT_PER_IN) \o " 0 0 cm ")
                    \o (IF show_reg_marks
                        THEN Str("q\n")
                               \o create_registration(page_width_in, page_height_in,
                                                      cameo4_no_mat_reg_geometry).str
                               \o Str("Q\n")
                        ELSE <<>>),
   cout       |-> << "top_in " \o Fmt(layout.top_in, nan),
                     "bottom_in " \o Fmt(layout.bottom_in, nan),
                     "available_height_in_in " \o Fmt(layout.available_height_in, nan),
                     "overlay_y_gap_in " \o Fmt(layout.overlay_y_gap_in, nan) >>,
   legend_map |-> lmap]

\* contents after the copy loop
page_end(layout, r) ==
  [layout |-> layout, legend_map |-> r.legend_map,
   contents |-> r.contents \o Str("Q\n"), cout |-> r.cout]

\* the call from the statics as this call leaves them
page_of(layout, lmap, nan, page_width_in, page_height_in, geom, show_outlines, show_reg_marks, show_legends) ==
  page_end(layout,
           page_copies(page_begin(layout, lmap, nan, page_width_in, page_height_in,
                                  show_reg_marks),
                       0, layout, page_width_in, geom, show_outlines, show_legends, nan))

\* one call: the statics and legend_map after it, the string handed to
\* pdf.newStream, and the lines written to std::cout
createPageContents(layout, lmap, nan, page_width_in, page_height_in, reg_geom, geom, show_outlines, show_reg_marks, show_legends) ==
  page_of(page_layout(layout, page_height_in, reg_geom, geom), lmap, nan,
          page_width_in, page_height_in, geom, show_outlines, show_reg_marks,
          show_legends)

\* ------------------------------------------- calls on one builder object

MaxCalls == 3

CoordValues == {R(0, 1), R(1, 1)}

Points == {Coord(x, y) : x \in CoordValues, y \in CoordValues}

Dims == {Dimensions(R(2, 1), R(1, 1))}

Radii == {Zero, R(1, 4)}

\* (fill, stroke) as the program passes them
PaintTargets == {<<TRUE, TRUE>>, <<FALSE, TRUE>>}

BuilderInit ==
  /\ \E path_graphics_state \in BOOLEAN :
        /\ cs = ContentStreamString(path_graphics_state)
        /\ call = [op |-> "ContentStreamString", path_graphics_state |-> path_graphics_state]
  /\ thrown = ""
  /\ ncalls = 0

\* one call on cs returning r: an exception propagates and ends the use of cs
Called(r, c) ==
  /\ thrown = ""
  /\ ncalls < MaxCalls
  /\ ncalls' = ncalls + 1
  /\ call' = c
  /\ IF IsException(r)
     THEN cs' = r.b /\ thrown' = r.exception
     ELSE cs' = r /\ thrown' = ""
  /\ UNCHANGED <<legend_map, overlayVars, pageVars>>

SetColorSpace ==
  \E t \in PaintTargets :
    Called(set_color_space(cs, "DeviceRGB", t[1], t[2]),
           [op |-> "set_color_space", fill |-> t[1], stroke |-> t[2]])

SetColor ==
  \E t \in PaintTargets :
    Called(set_color(cs, BLACK, t[1], t[2]),
           [op |-> "set_color", fill |-> t[1], stroke |-> t[2]])

SetLineWidth ==
  Called(set_line_width(cs, R(1, 254)), [op |-> "set_line_width"])

MoveTo ==
  \E dest \in Points : Called(move_to(cs, dest), [op |-> "move_to", dest |-> dest])

LineTo ==
  \E dest \in Points : Called(line_to(cs, dest), [op |-> "line_to", dest |-> dest])

ArcTo ==
  \E dest \in Points, clockwise \in BOOLEAN :
    Called(arc_to(cs, dest, clockwise),
           [op |-> "arc_to", dest |-> dest, clockwise |-> clockwise])

Rect ==
  \E dimensions \in Dims :
    Called(rect(cs, dimensions), [op |-> "rect", dimensions |-> dimensions])

RoundedRect ==
  \E dimensions \in Dims, radius \in Radii :
    Called(rounded_rect(cs, dimensions, radius),
           [op |-> "rounded_rect", dimensions |-> dimensions, radius |-> radius])

Text ==
  Called(text(cs, Coord(R(1, 2), R(3, 100)), "CENTER", "SH HEX", "F1", R(1, 12)),
         [op |-> "text"])

PathClose == Called(path_close(cs), [op |-> "path_close"])

PathStroke == Called(path_stroke(cs), [op |-> "path_stroke"])

PathCloseStroke == Called(path_close_stroke(cs), [op |-> "path_close_stroke"])

PathFill ==
  \E fill_rule \in FillRule :
    Called(path_fill(cs, fill_rule), [op |-> "path_fill", fill_rule |-> fill_rule])

PathFillStroke ==
  \E fill_rule \in FillRule :
    Called(path_fill_stroke(cs, fill_rule),
           [op |-> "path_fill_stroke", fill_rule |-> fill_rule])

PathCloseFillStroke ==
  \E fill_rule \in FillRule :
    Called(path_close_fill_stroke(cs, fill_rule),
           [op |-> "path_close_fill_stroke", fill_rule |-> fill_rule])

BuilderNext ==
  \/ SetColorSpace \/ SetColor \/ SetLineWidth
  \/ MoveTo \/ LineTo \/ ArcTo \/ Rect \/ RoundedRect \/ Text
  \/ PathClose \/ PathStroke \/ PathCloseStroke
  \/ PathFill \/ PathFillStroke \/ PathCloseFillStroke

\* no builder object is under direct calls
BuilderIdle ==
  /\ cs = ContentStreamString(FALSE)
  /\ call = [op |-> "none"]
  /\ thrown = ""
  /\ ncalls = 0

OverlayIdle == ov = [pc |-> "idle"]

NoPage == [pc |-> "none"]

PageIdle ==
  /\ statics = layout_0
  /\ page = NoPage
  /\ prev = NoPage
  /\ pcalls = 0

Init ==
  /\ BuilderInit
  /\ legend_map = legend_map_0
  /\ OverlayIdle
  /\ PageIdle
  /\ nan_text = "nan"

Next == BuilderNext

Spec == Init /\ [][Next]_vars

\* ------------------------------------------------ create_overlay by steps

Geometries == {hp_geometry, sm_geometry}

\* entry to create_overlay, up to the loops
OverlayBegin ==
  /\ ov.pc \in {"idle", "done"}
  /\ \E geom \in Geometries, show_outlines \in BOOLEAN, show_legends \in BOOLEAN :
       ov' = [pc |-> "loop", geom |-> geom, show_outlines |-> show_outlines,
              show_legends |-> show_legends, row |-> 0, col |-> 0,
              cs |-> overlay_begin(geom, show_outlines)]
  /\ UNCHANGED <<legend_map, builderVars, pageVars>>

\* one pass of the inner loop, and the step to the next cell
OverlayPass ==
  /\ ov.pc = "loop"
  /\ ov.row < 4
  /\ \E st \in {overlay_key([cs |-> ov.cs, legend_map |-> legend_map], ov.geom,
                            ov.row, ov.col, ov.show_outlines, ov.show_legends)} :
       /\ legend_map' = st.legend_map
       /\ IF IsException(st.cs)
          THEN ov' = [ov EXCEPT !.pc = "thrown", !.cs = st.cs.b]
          ELSE ov' = [ov EXCEPT !.cs = st.cs,
                                !.col = IF ov.col = 9 THEN 0 ELSE ov.col + 1,
                                !.row = IF ov.col = 9 THEN ov.row + 1 ELSE ov.row]
  /\ UNCHANGED <<builderVars, pageVars>>

\* the loops are over: cs is returned as a std::string
OverlayReturn ==
  /\ ov.pc = "loop"
  /\ ov.row = 4
  /\ ov' = [ov EXCEPT !.pc = "done"]
  /\ UNCHANGED <<legend_map, builderVars, pageVars>>

OverlayNext == OverlayBegin \/ OverlayPass \/ OverlayReturn

InitOverlay ==
  /\ BuilderIdle
  /\ legend_map = legend_map_0
  /\ OverlayIdle
  /\ PageIdle
  /\ nan_text = "nan"

SpecOverlay == InitOverlay /\ [][OverlayNext]_vars

\* ------------------------------------------- calls of createPageContents

MaxPageCalls == 2

letter_width_in == R(85, 10)

letter_height_in == R(11, 1)

\* main's --cut, --print and --all
Modes ==
  [cut   |-> [show_outlines |-> TRUE,  show_reg_marks |-> FALSE, show_legends |-> FALSE],
   print |-> [show_outlines |-> FALSE, show_reg_marks |-> TRUE,  show_legends |-> TRUE],
   all   |-> [show_outlines |-> TRUE,  show_reg_marks |-> TRUE,  show_legends |-> TRUE]]

PageArgs(page_width_in, page_height_in, geom, mode) ==
  [page_width_in |-> page_width_in, page_height_in |-> page_height_in,
   reg_geom |-> cameo4_no_mat_reg_geometry, geom |-> geom, mode |-> mode]

\* page heights that leave 7, 6.4, 4.5, 4.25 and 2.5 inches between the insets
PageHeights == {R(8849, 1000), R(8249, 1000), R(6349, 1000), R(6099, 1000), R(4349, 1000)}

PageInputs ==
  {PageArgs(letter_width_in, h, hp_geometry, Modes.print) : h \in PageHeights}
    \cup {PageArgs(letter_width_in, letter_height_in, g, Modes.print) : g \in Geometries}
    \cup {PageArgs(letter_width_in, letter_height_in, hp_geometry, m) :
            m \in {Modes.cut, Modes.all}}
    \cup {PageArgs(R(9, 1), h, hp_geometry, Modes.print) :
            h \in {letter_height_in, R(8849, 1000)}}

CreatePageContents ==
  /\ pcalls < MaxPageCalls
  /\ \E a \in PageInputs :
       \E r \in {createPageContents(statics, legend_map, nan_text, a.page_width_in,
                                    a.page_height_in, a.reg_geom, a.geom,
                                    a.mode.show_outlines, a.mode.show_reg_marks,
                                    a.mode.show_legends)} :
           /\ statics' = r.layout
           /\ legend_map' = r.legend_map
           /\ page' = [pc |-> "returned", args |-> a, contents |-> r.contents,
                       cout |-> r.cout]
  /\ prev' = page
  /\ pcalls' = pcalls + 1
  /\ UNCHANGED <<builderVars, overlayVars, nan_text>>

PageNext == CreatePageContents

InitPage ==
  /\ BuilderIdle
  /\ legend_map = legend_map_0
  /\ OverlayIdle
  /\ PageIdle
  /\ nan_text \in {"nan", "-nan"}

SpecPage == InitPage /\ [][PageNext]_vars

\* --------------------------------------- one run: main's call of the page

\* create_page passes the letter page; the other sizes are values of the
\* parameters page_width_in and page_height_in
PageWidths == {letter_width_in, R(9, 1)}

RunInputs ==
  {PageArgs(w, h, g, Modes[m]) :
     w \in PageWidths, h \in PageHeights \cup {letter_height_in},
     g \in Geometries, m \in DOMAIN Modes}

\* main -> create_pdf -> create_page -> createPageContents, once in a run
CreatePage ==
  /\ pcalls = 0
  /\ \E a \in RunInputs :
       \E r \in {createPageContents(statics, legend_map, nan_text, a.page_width_in,
                                    a.page_height_in, a.reg_geom, a.geom,
                                    a.mode.show_outlines, a.mode.show_reg_marks,
                                    a.mode.show_legends)} :
           /\ statics' = r.layout
           /\ legend_map' = r.legend_map
           /\ page' = [pc |-> "returned", args |-> a, contents |-> r.contents,
                       cout |-> r.cout]
  /\ prev' = page
  /\ pcalls' = 1
  /\ UNCHANGED <<builderVars, overlayVars, nan_text>>

RunNext == CreatePage

SpecRun == InitPage /\ [][RunNext]_vars

\* ------------------------------------------- properties of the builder

\* the instructions of a buffer: what lies before its trailer
Body(b) == SubSeq(b.str, 1, Len(b.str) - b.trailer_length)

\* what a call has added to the instructions
Emitted(b, c) == SubSeq(Body(c), Len(Body(b)) + 1, Len(Body(c)))

IsPrefix(s, t) == Len(s) <= Len(t) /\ SubSeq(t, 1, Len(s)) = s

NeedCursor == {"arc_to", "rect", "rounded_rect"}

\* C4: in a state whose cursor is undefined, a call of arc_to, rect or
\* rounded_rect throws the precondition error and leaves the buffer, the cursor
\* and the cursor flag as they were.
C4_NoCursorThrows ==
  [][(~cs.have_last_coord /\ call'.op \in NeedCursor)
       => (thrown' = "arc_to() origin unknown" /\ cs' = cs)]_vars

\* rounded_rect has thrown on a buffer that already holds a closed path
C4_Witness ==
  /\ thrown = "arc_to() origin unknown"
  /\ call.op = "rounded_rect"
  /\ ~cs.have_last_coord
  /\ \E i \in 1..(Len(cs.str) - 1) : cs.str[i] = "h" /\ cs.str[i + 1] = "\n"

\* C5: with a defined cursor, rounded_rect(dimensions, 0) leaves the object
\* (buffer, cursor and cursor flag) exactly as rect(dimensions) leaves it.
C5_ZeroRadiusIsRect ==
  [][(cs.have_last_coord /\ call'.op = "rounded_rect" /\ call'.radius = Zero)
       => (thrown' = "" /\ cs' = rect(cs, call'.dimensions))]_vars

C5_Witness ==
  /\ call.op = "rounded_rect"
  /\ call.radius = Zero
  /\ thrown = ""
  /\ Len(cs.str) > 20

\* C6: a builder constructed with the save/restore pair always holds "q ",
\* then the instructions, then "Q\n" as its last two characters, and a call
\* only adds after the instructions already there, never after "Q\n".
C6_Wrapper ==
  [][cs.trailer_length = 2
       => /\ SubSeq(cs'.str, 1, 2) = Str("q ")
          /\ SubSeq(cs'.str, Len(cs'.str) - 1, Len(cs'.str)) = Str("Q\n")
          /\ cs'.trailer_length = 2
          /\ IsPrefix(Body(cs), Body(cs'))]_vars

\* three calls have each added instructions to a wrapped buffer
C6_Witness ==
  /\ cs.trailer_length = 2
  /\ ncalls = 3
  /\ thrown = ""
  /\ call.op = "line_to"
  /\ Len(cs.str) > 16

\* the directions of travel of a clockwise quarter turn from p0 to p3, as unit
\* steps <<x, y>>: t0 at p0 and t3 at p3.  t3 is t0 turned clockwise, (t0y, -t0x),
\* and p3 - p0 = r * (t0 + t3): the signs of dx and dy are equal when t0 is
\* vertical and opposite when t0 is horizontal.
Tangents(sx, sy) ==
  IF sx = sy THEN [t0 |-> <<0, sy>>, t3 |-> <<sx, 0>>]
  ELSE [t0 |-> <<sx, 0>>, t3 |-> <<0, sy>>]

\* p moved by v times the unit step t
Stepped(p, v, t) == Coord(NumAdd(p.x, NumMulI(v, t[1])), NumAdd(p.y, NumMulI(v, t[2])))

\* the operands of a curve with control points p1, p2 and end point p3
CurveText(p1, p2, p3) ==
  Str(G(p1.x) \o " " \o G(p1.y) \o " " \o G(p2.x) \o " " \o G(p2.y) \o " "
      \o G(p3.x) \o " " \o G(p3.y) \o " c\n")

\* C9: a clockwise arc_to from the cursor p0 to p3 with r = |dx| = |dy| > 0
\* emits a curve whose first control point is p0 moved by c = r * KAPPA along
\* the direction of travel at p0 and whose second is p3 moved back by c along
\* the direction of travel at p3 (each along one axis, the two perpendicular);
\* the curve ends at p3 and the cursor becomes p3.
C9_ClockwiseControlPoints ==
  [][(/\ call'.op = "arc_to"
      /\ call'.clockwise
      /\ cs.have_last_coord
      /\ NumAbs(NumSub(cs.last_coord.x, call'.dest.x))
           = NumAbs(NumSub(cs.last_coord.y, call'.dest.y))
      /\ cs.last_coord.x # call'.dest.x)
       => \A p0 \in {cs.last_coord}, p3 \in {call'.dest} :
            \A c \in {NumMul(KAPPA, NumAbs(NumSub(p0.x, p3.x)))},
               t \in {Tangents(SignOf(NumSub(p3.x, p0.x)), SignOf(NumSub(p3.y, p0.y)))} :
              /\ thrown' = ""
              /\ cs'.last_coord = p3
              /\ cs'.have_last_coord
              /\ Emitted(cs, cs')
                   = CurveText(Stepped(p0, c, t.t0), Stepped(p3, NumNeg(c), t.t3), p3)]_vars

\* a clockwise quarter circle from (1, 0) to (0, 1) has been drawn
C9_Witness ==
  /\ call.op = "arc_to"
  /\ call.clockwise
  /\ call.dest = Coord(R(0, 1), R(1, 1))
  /\ thrown = ""
  /\ Emitted(ContentStreamString(TRUE), cs)
       = Str("1 0 m 0.447715 0 0 0.447715 0 1 c\n")

\* ------------------------------------------- reading instruction text

Separators == {" ", "\n"}

\* the number a string of decimal digits denotes
RECURSIVE DigitsValue(_)
DigitsValue(t) ==
  IF t = <<>> THEN 0
  ELSE 10 * DigitsValue(SubSeq(t, 1, Len(t) - 1))
         + (CHOOSE d \in 0..9 : ToString(d) = t[Len(t)])

\* the number an operand denotes: digits with at most one point, no sign
OperandValue(t) ==
  IF \E i \in 1..Len(t) : t[i] = "."
  THEN R(DigitsValue(SelectSeq(t, LAMBDA c : c # ".")),
         Pow10(Len(t) - (CHOOSE i \in 1..Len(t) : t[i] = ".")))
  ELSE R(DigitsValue(t), 1)

\* the operand of s that ends at e: from after the separator before it
OperandAt(s, e) ==
  SubSeq(s, 1 + (CHOOSE k \in 0..(e - 1) :
                   /\ k = 0 \/ s[k] \in Separators
                   /\ \A j \in (k + 1)..e : s[j] \notin Separators), e)

\* where the m and l operators of s stand, in order
PathOps(s) ==
  {i \in 2..(Len(s) - 1) : s[i] \in {"m", "l"} /\ s[i - 1] = " " /\ s[i + 1] = " "}

\* the point that is the operand pair of the operator at i
PointAt(s, i) ==
  Coord(OperandValue(OperandAt(s, (i - 3) - Len(OperandAt(s, i - 2)))),
        OperandValue(OperandAt(s, i - 2)))

\* the points of the m and l instructions of s, in order
PathPoints(s) ==
  [n \in 1..Cardinality(PathOps(s)) |->
     PointAt(s, CHOOSE i \in PathOps(s) :
                  Cardinality({j \in PathOps(s) : j < i}) = n - 1)]

\* how often the two characters a, b follow each other in s
CountPairs(s, a, b) == Cardinality({i \in 1..(Len(s) - 1) : s[i] = a /\ s[i + 1] = b})

\* the largest and the smallest of a set of numbers
NumMax(S) == CHOOSE a \in S : \A b \in S : ~NumLt(a, b)

NumMin(S) == CHOOSE a \in S : \A b \in S : ~NumLt(b, a)

\* ------------------------------------------- properties of create_overlay

\* the height of the path through the points pts
HeightOf(pts) ==
  NumSub(NumMax({pts[n].y : n \in DOMAIN pts}), NumMin({pts[n].y : n \in DOMAIN pts}))

\* the height of the path drawn by the instructions s
DrawnHeight(s) == CHOOSE h \in {HeightOf(pts) : pts \in {PathPoints(s)}} : TRUE

\* the cell of the pass that create_overlay is about to make
AtCell(row, col) == ov.pc = "loop" /\ ov.row = row /\ ov.col = col

\* C7: one rendering of the overlay passes over the 4 x 10 cells and draws a
\* key in each but row 3, column 5, which adds nothing: 39 keys; the key drawn
\* at row 2, column 5 is key_height_in + key_row_pitch_in high and every other
\* key key_height_in.
C7_KeypadGrid ==
  [][ov.pc = "loop" =>
       \A e \in {Emitted(ov.cs, ov'.cs)} :
         /\ AtCell(3, 5) => e = <<>>
         /\ (ov.row < 4 /\ ~AtCell(3, 5) /\ (ov.show_outlines \/ ov.show_legends))
              => Len(e) > 0
         /\ (ov.row < 4 /\ ~AtCell(3, 5) /\ ov.show_outlines)
              => DrawnHeight(e) = IF AtCell(2, 5)
                                  THEN NumAdd(ov.geom.key_height_in,
                                              ov.geom.key_row_pitch_in)
                                  ELSE ov.geom.key_height_in
         /\ (ov'.pc = "done" /\ ov.show_outlines)
              => CountPairs(ov'.cs.str, "s", "\n") = 39 + 1
         /\ (ov'.pc = "done" /\ ov.show_legends)
              => CountPairs(ov'.cs.str, "T", "j") = 39]_vars

\* an overlay with outlines and legends has been rendered
C7_Witness ==
  /\ ov.pc = "done"
  /\ ov.show_outlines
  /\ ov.show_legends
  /\ ov.geom = hp_geometry
  /\ CountPairs(ov.cs.str, "s", "\n") = 40

\* --------------------------------------- properties of the page layout

\* the height between the insets and the height of one overlay, of the call
Available == statics.available_height_in

OverlayHeight == page.args.geom.height_in

\* floor(a / h) for a >= 0, h > 0
FloorOf(a, h) ==
  CHOOSE c \in 0..9 : ~NumLt(a, NumMulI(h, c)) /\ NumLt(a, NumMulI(h, c + 1))

\* the gap that c copies leave
GapOf(c) == NumDivI(NumSub(Available, NumMulI(OverlayHeight, c)), c - 1)

\* the copies the call has placed: the y of its "overlay y" lines
Copies == {y \in 0..9 : \E i \in DOMAIN page.cout : page.cout[i] = "overlay " \o ToString(y)}

\* where the transforms of the copies end in the contents ("cm" and a newline)
CopyTransforms(contents) ==
  {i \in 3..Len(contents) :
     contents[i] = "\n" /\ contents[i - 1] = "m" /\ contents[i - 2] = "c"}

\* the contents place a copy with its origin at (x, y)
PlacedAt(contents, x, y) ==
  \E t \in {Str("q 1 0 0 1 " \o G(x) \o " " \o G(y) \o " cm\n")} :
    \E i \in CopyTransforms(contents) :
      i > Len(t) /\ SubSeq(contents, i - Len(t) + 1, i) = t

\* C1: when floor(available / overlay height) = 1 the layout keeps the count
\* at 1, reports a gap of zero and places exactly one copy, at offset 0 from
\* the top inset.  (Counterexample: the count becomes 0.)
C1_SingleCopy ==
  (page.pc = "returned" /\ FloorOf(Available, OverlayHeight) = 1)
    => /\ statics.y_count = 1
       /\ statics.overlay_y_gap_in = Zero
       /\ page.cout[4] = "overlay_y_gap_in 0"
       /\ Copies = {0}
       /\ \E i \in DOMAIN page.cout : page.cout[i] = "top " \o G(statics.top_in)

\* C2: when floor(available / overlay height) = c is at least 2, the count is
\* c - 1 if (available - c * height) / (c - 1) is below 0.1 and c otherwise.
\* (Counterexample: with c = 3 and a gap of 0.05 the count stays 3.)
C2_DecrementRule ==
  (page.pc = "returned" /\ FloorOf(Available, OverlayHeight) >= 2)
    => \A c \in {FloorOf(Available, OverlayHeight)} :
         statics.y_count = IF NumLt(GapOf(c), R(1, 10)) THEN c - 1 ELSE c

\* the top of copy i as the claim has it
TopOf(i, gap) == NumAdd(statics.top_in, NumMulI(NumAdd(OverlayHeight, gap), i))

\* C3: when the final count n is at least 2, the gap is
\* (available - n * height) / (n - 1); copy i (0 <= i < n) is placed with its
\* top at i * (height + gap) below the top inset, and the last copy ends at the
\* bottom of the available region; with available 7 and height 2.10 the count
\* is 3, the gap 0.35 and the offsets 0, 2.45 and 4.9.
C3_Placement ==
  (page.pc = "returned" /\ statics.y_count >= 2)
    => \A n \in {statics.y_count}, gap \in {GapOf(statics.y_count)} :
         /\ statics.overlay_y_gap_in = gap
         /\ page.cout[4] = "overlay_y_gap_in " \o G(gap)
         /\ Copies = 0..(n - 1)
         /\ \A i \in 0..(n - 1) :
              /\ page.cout[4 + 4 * i + 1] = "overlay " \o ToString(i)
              /\ page.cout[4 + 4 * i + 3] = "top " \o G(TopOf(i, gap))
              /\ page.cout[4 + 4 * i + 4]
                   = "bottom " \o G(NumAdd(TopOf(i, gap), OverlayHeight))
              /\ PlacedAt(page.contents,
                          NumDivI(NumSub(page.args.page_width_in,
                                         page.args.geom.width_in), 2),
                          NumSub(NumAdd(TopOf(i, gap), OverlayHeight), R(155, 100)))
         /\ Cardinality(CopyTransforms(page.contents)) = n
         /\ page.cout[4 * n + 4] = "bottom " \o G(statics.bottom_in)
         /\ (page.cout[3] = "available_height_in_in 7" /\ OverlayHeight = R(210, 100))
              => /\ n = 3
                 /\ G(gap) = "0.35"
                 /\ <<G(NumSub(TopOf(0, gap), statics.top_in)),
                      G(NumSub(TopOf(1, gap), statics.top_in)),
                      G(NumSub(TopOf(2, gap), statics.top_in))>>
                      = <<"0", "2.45", "4.9">>

\* the page with 7 inches between the insets has its three copies
C3_Witness ==
  /\ page.pc = "returned"
  /\ page.cout[3] = "available_height_in_in 7"
  /\ OverlayHeight = R(210, 100)
  /\ statics.y_count = 3
  /\ page.cout[11] = "top 3.175"
  /\ Cardinality(CopyTransforms(page.contents)) = 3

\* --------------------------------------- properties of the marks

\* the call r has drawn the registration marks
HasMarks(r) ==
  /\ r.pc = "returned"
  /\ r.contents[20] = "q"
  /\ r.contents[21] = "\n"

\* what create_registration returned to the call r: from after the "q\n" that
\* opens the block of the marks to the first "Q\n"
MarksOf(r) ==
  SubSeq(r.contents, 22,
         CHOOSE i \in 23..400 :
           /\ r.contents[i - 1] = "Q" /\ r.contents[i] = "\n"
           /\ \A j \in 22..(i - 2) : r.contents[j] # "Q")

\* p moved by (dx, dy)
Shifted(p, dx, dy) == Coord(NumAdd(p.x, dx), NumAdd(p.y, dy))

\* the points of the marks: 1..5 the square at the top left, 6..8 the right
\* angle at the bottom left, 9..11 the right angle at the top right
SquarePoints == 1..5

BottomLeftPoints == 6..8

TopRightPoints == 9..11

\* the marks of a and b are the same instructions when the page is the same
SamePageSameMarks(a, b) ==
  (a.args.page_width_in = b.args.page_width_in
     /\ a.args.page_height_in = b.args.page_height_in
     /\ a.args.reg_geom = b.args.reg_geom)
    => MarksOf(a) = MarksOf(b)

\* C8 as stated: the marks do not depend on the overlay geometry, and on two
\* pages that differ by (dw, dh) each of the three marks is shifted by
\* (dw, dh).  (Counterexample: the square and the bottom left angle.)
C8_MarksShiftWithPage ==
  (HasMarks(prev) /\ HasMarks(page))
    => /\ SamePageSameMarks(prev, page)
       /\ \A dw \in {NumSub(page.args.page_width_in, prev.args.page_width_in)},
             dh \in {NumSub(page.args.page_height_in, prev.args.page_height_in)},
             a \in {PathPoints(MarksOf(prev))}, b \in {PathPoints(MarksOf(page))} :
            /\ DOMAIN a = 1..11
            /\ DOMAIN b = 1..11
            /\ \A n \in 1..11 : b[n] = Shifted(a[n], dw, dh)

\* C8, amended: the marks do not depend on the overlay geometry; on two pages
\* that differ by (dw, dh) the right angle at the top right is shifted by
\* (dw, dh), the square at the top left by (0, dh), and the right angle at the
\* bottom left is not shifted.
C8_MarksAnchored ==
  (HasMarks(prev) /\ HasMarks(page))
    => /\ SamePageSameMarks(prev, page)
       /\ \A dw \in {NumSub(page.args.page_width_in, prev.args.page_width_in)},
             dh \in {NumSub(page.args.page_height_in, prev.args.page_height_in)},
             a \in {PathPoints(MarksOf(prev))}, b \in {PathPoints(MarksOf(page))} :
            /\ DOMAIN a = 1..11
            /\ DOMAIN b = 1..11
            /\ \A n \in TopRightPoints : b[n] = Shifted(a[n], dw, dh)
            /\ \A n \in SquarePoints : b[n] = Shifted(a[n], Zero, dh)
            /\ \A n \in BottomLeftPoints : b[n] = a[n]

\* marks on a letter page, then on a page wider and shorter; and marks on the
\* same page for the two overlay geometries
C8_Witness ==
  /\ HasMarks(prev)
  /\ HasMarks(page)
  /\ prev.args.page_width_in = letter_width_in
  /\ prev.args.page_height_in = letter_height_in
  /\ page.args.page_width_in = R(9, 1)
  /\ page.args.page_height_in = R(8849, 1000)
  /\ PathPoints(MarksOf(page))[10] = Coord(R(8375, 1000), R(8224, 1000))

\* --------------------------------------- properties of repeated calls

\* the call r as a first call would have made it
Fresh(r) ==
  createPageContents(layout_0, legend_map_0, nan_text, r.args.page_width_in,
                     r.args.page_height_in, r.args.reg_geom, r.args.geom,
                     r.args.mode.show_outlines, r.args.mode.show_reg_marks,
                     r.args.mode.show_legends)

\* C10: the copy count, the gap and the instruction string of a call depend
\* on its arguments only: a call yields what a first call with its arguments
\* yields, and two successive calls with the same arguments yield the same.
\* (Counterexample: the statics of the first call decide the later ones.)
C10_NoStateBetweenCalls ==
  page.pc = "returned"
    => /\ \A f \in {Fresh(page)} :
            /\ page.contents = f.contents
            /\ page.cout = f.cout
            /\ statics.y_count = f.layout.y_count
            /\ statics.overlay_y_gap_in = f.layout.overlay_y_gap_in
       /\ (prev.pc = "returned" /\ prev.args = page.args)
            => (prev.contents = page.contents /\ prev.cout = page.cout)

\* --------------------------------------- properties of the legend table

\* the key code of the cell (row, col)
KeyCode(row, col) == ((row + 1) * 10) + ((col + 1) % 10)

\* C11: legend_map is never changed while the program runs: it keeps the keys
\* and legends of its initializer, and the key code of every key that is about
\* to get its legend is a key of the table before the lookup.
\* (Counterexample: key code 20, of row 1, column 9, is not in the table, and
\* the lookup inserts it.)
C11_LegendMapReadOnly ==
  /\ legend_map = legend_map_0
  /\ (ov.pc = "loop" /\ ov.row < 4 /\ ~AtCell(3, 5) /\ ov.show_legends)
       => KeyCode(ov.row, ov.col) \in DOMAIN legend_map

\* --------------------------------------- properties of the cursor

CursorSetters == {"move_to", "line_to"}

CloseVariants == {"path_close", "path_close_stroke", "path_close_fill_stroke"}

CursorKeepers ==
  {"set_color_space", "set_color", "set_line_width", "text",
   "path_stroke", "path_fill", "path_fill_stroke"}

\* C12: in any sequence of calls, move_to(p) and line_to(p) set the cursor to p
\* and mark it defined; path_close, path_close_stroke and
\* path_close_fill_stroke mark it undefined; set_color_space, set_color,
\* set_line_width, text, path_stroke, path_fill and path_fill_stroke leave the
\* cursor point and the flag as they were; none of these calls throws.
C12_CursorTransitions ==
  [][/\ call'.op \in CursorSetters
          => (cs'.last_coord = call'.dest /\ cs'.have_last_coord /\ thrown' = "")
     /\ call'.op \in CloseVariants
          => (~cs'.have_last_coord /\ thrown' = "")
     /\ call'.op \in CursorKeepers
          => /\ cs'.last_coord = cs.last_coord
             /\ cs'.have_last_coord = cs.have_last_coord
             /\ thrown' = ""]_vars

\* the cursor was set to (1, 1), kept over a fill, and is kept defined by a
\* stroke
C12_Witness ==
  /\ ncalls = 3
  /\ call.op = "path_stroke"
  /\ cs.have_last_coord
  /\ cs.last_coord = Coord(R(1, 1), R(1, 1))
  /\ CountPairs(cs.str, "f", "\n") = 1
  /\ CountPairs(cs.str, "S", "\n") = 1

\* --------------------------------------- properties of counterclockwise arcs

\* the directions of travel of a counterclockwise quarter turn from p0 to p3:
\* t3 is t0 turned counterclockwise, (-t0y, t0x), and p3 - p0 = r * (t0 + t3):
\* the signs of dx and dy are equal when t0 is horizontal and opposite when t0
\* is vertical.  The mirror image of Tangents.
MirrorTangents(sx, sy) ==
  IF sx = sy THEN [t0 |-> <<sx, 0>>, t3 |-> <<0, sy>>]
  ELSE [t0 |-> <<0, sy>>, t3 |-> <<sx, 0>>]

\* the signs of (p0.x - p3.x, p0.y - p3.y)
DeltaSigns(p0, p3) == <<SignOf(NumSub(p0.x, p3.x)), SignOf(NumSub(p0.y, p3.y))>>

\* p0 and p3 are the ends of a quarter circle
QuarterEnds(p0, p3) ==
  /\ p0.x # p3.x
  /\ NumAbs(NumSub(p0.x, p3.x)) = NumAbs(NumSub(p0.y, p3.y))

\* the case arc_to selects: the directions in which it moves p1 from p0 and p2
\* from p3
CaseOf(p0, p3, cp) ==
  <<SignOf(NumSub(cp.p1.x, p0.x)), SignOf(NumSub(cp.p1.y, p0.y)),
    SignOf(NumSub(cp.p2.x, p3.x)), SignOf(NumSub(cp.p2.y, p3.y))>>

\* end points over a range of coordinates
GridPoints == {Coord(R(x, 1), R(y, 1)) : x \in 0..3, y \in 0..3}

\* C13: a counterclockwise arc_to between the ends p0, p3 of a quarter circle
\* selects its case from the signs of (p0.x - p3.x, p0.y - p3.y) alone, whatever
\* the coordinates are, and its control points mirror the clockwise ones: the
\* first is p0 moved by c along the direction of travel at p0, the second p3
\* moved back by c along the direction of travel at p3.
\* (Counterexample: from (0, 1) to (1, 0) the third case is meant and the
\* fourth is taken, because two tests compare p0.x with p3.y.)
C13_CounterclockwiseMirror ==
  [][(/\ call'.op = "arc_to"
      /\ ~call'.clockwise
      /\ cs.have_last_coord
      /\ QuarterEnds(cs.last_coord, call'.dest))
       => \A p0 \in {cs.last_coord}, p3 \in {call'.dest} :
            \A c \in {NumMul(KAPPA, NumAbs(NumSub(p0.x, p3.x)))},
               t \in {MirrorTangents(SignOf(NumSub(p3.x, p0.x)),
                                     SignOf(NumSub(p3.y, p0.y)))} :
              /\ thrown' = ""
              /\ Emitted(cs, cs')
                   = CurveText(Stepped(p0, c, t.t0), Stepped(p3, NumNeg(c), t.t3), p3)
              /\ \A q0 \in GridPoints, q3 \in GridPoints :
                   (QuarterEnds(q0, q3) /\ DeltaSigns(q0, q3) = DeltaSigns(p0, p3))
                     => CaseOf(q0, q3, arc_control(q0, q3, FALSE))
                          = CaseOf(p0, p3, arc_control(p0, p3, FALSE))]_vars

====
